---- MODULE Spec2Model ----
(***************************************************************************)
(* Icon generation scripts of RememberMe-2.0:                              *)
(*   generate_proper_icons.py  (parse_svg_colors, hex_to_rgb, create_icon, *)
(*                              main, __main__ guard)                      *)
(*   generate_icons.py         (svg_to_base64_png,                         *)
(*                              generate_html_placeholder, __main__)       *)
(*                                                                         *)
(* Three specifications share the variables:                               *)
(*   SpecParse   direct calls of parse_svg_colors followed by the          *)
(*               conversions create_icon applies to the result;            *)
(*   SpecRender  create_icon drawn pixel by pixel on a small canvas;       *)
(*   Spec        a whole run of either script (imports, main, the loop     *)
(*               over the size table, the files written, the handlers).    *)
(***************************************************************************)
EXTENDS Integers, Sequences, FiniteSets, TLC

VARIABLES
    script,      \* which script is run: "proper" | "icons" | "none"
    pil,         \* whether `import PIL` succeeds
    svg,         \* public/images/favicon.svg: [state, doc]
    pc,          \* position of the run / of the call
    colors,      \* value returned by parse_svg_colors (list of stop-color values)
    color1,      \* hex_to_rgb(colors[0]) in create_icon
    color2,      \* hex_to_rgb(colors[1]) in create_icon
    exc,         \* exception in flight or that ended the run; "none" if none
    out,         \* what has been printed, in order
    files,       \* the writes done so far, in order: [name, w, h]
    dirCreated,  \* public/icons created by os.makedirs
    idx,         \* position in the loop over the sizes
    size,        \* size argument of the create_icon call being drawn
    y,           \* next gradient row to paint
    canvas,      \* img: (x, y) -> <<r, g, b, a>>
    fp           \* how the doubles of this call round: "exact" | "low"

vars == <<script, pil, svg, pc, colors, color1, color2, exc, out, files,
          dirCreated, idx, size, y, canvas, fp>>

----------------------------------------------------------------------------
(* Bounds of the model *)

\* most elements (linearGradient or stop) of a document given to parse_svg_colors
MaxElements == 4
\* most elements of the document in a whole run
MaxRunElements == 3
\* largest size drawn pixel by pixel
MaxSize == 12

----------------------------------------------------------------------------
(* Strings are sequences of one-character strings; None is the one-element *)
(* sequence <<"None">>, which is no string of characters.                 *)

None == <<"None">>

Str112233 == <<"#", "1", "1", "2", "2", "3", "3">>
Str445566 == <<"#", "4", "4", "5", "5", "6", "6">>
StrShort  == <<"#", "f", "f", "f">>
StrNeg    == <<"#", "-", "1", "-", "1", "-", "1">>
Str6366f1 == <<"#", "6", "3", "6", "6", "f", "1">>
Str8b5cf6 == <<"#", "8", "b", "5", "c", "f", "6">>

\* the stop-color values a stop element may carry (None: attribute absent)
StopColorValues == {None, Str112233, Str445566, StrShort, StrNeg}

\* the literal ['#6366f1', '#8b5cf6']
DefaultColors == <<Str6366f1, Str8b5cf6>>

----------------------------------------------------------------------------
(* Documents.  Only linearGradient and stop elements matter to the lookups; *)
(* a document is the sequence of these elements in document order, each in  *)
(* the SVG namespace (ns) or in no namespace.  A stop is a direct child of  *)
(* the nearest linearGradient before it; a stop before every linearGradient *)
(* is a child of some other element.  The elements are descendants of the   *)
(* root, which './/' does not match.                                        *)

Elements ==
    [kind : {"linearGradient"}, ns : BOOLEAN, color : {None}]
    \cup [kind : {"stop"}, ns : BOOLEAN, color : StopColorValues]

DocsUpTo(n) == UNION {[1..k -> Elements] : k \in 0..n}

\* the file: absent, present but rejected by the XML parser, or a document
Files(n) ==
    [state : {"missing", "malformed"}, doc : {<<>>}]
    \cup [state : {"ok"}, doc : DocsUpTo(n)]

IsDoc(f) == f.state = "ok"

Min(S) == CHOOSE m \in S : \A k \in S : m <= k

\* root.find('.//<ns>linearGradient'): first such element in document order, 0 for None
Find(doc, ns) ==
    LET hits == {i \in 1..Len(doc) :
                    doc[i].kind = "linearGradient" /\ doc[i].ns = ns}
    IN  IF hits = {} THEN 0 ELSE Min(hits)

\* the children of the linearGradient at position g
Children(doc, g) ==
    LET later == {i \in (g+1)..Len(doc) : doc[i].kind = "linearGradient"}
        last  == IF later = {} THEN Len(doc) ELSE Min(later) - 1
    IN  SubSeq(doc, g + 1, last)

IsNsStop(e) == e.kind = "stop" /\ e.ns
IsPlainStop(e) == e.kind = "stop" /\ ~e.ns

\* [stop.get('stop-color') for stop in gradient.findall('<ns>stop')]
FindallStopColors(doc, g, ns) ==
    LET kids == IF ns THEN SelectSeq(Children(doc, g), IsNsStop)
                      ELSE SelectSeq(Children(doc, g), IsPlainStop)
    IN  [i \in 1..Len(kids) |-> kids[i].color]

\* the gradient the two lookups of lines 17-19 select (0 for None)
SelectedGradient(doc) ==
    LET g == Find(doc, TRUE)
    IN  IF g = 0 THEN Find(doc, FALSE) ELSE g

\* the list `stops` at line 29
CollectedStops(doc) ==
    LET g == SelectedGradient(doc)
    IN  IF g = 0 THEN <<>>
        ELSE LET s1 == FindallStopColors(doc, g, TRUE)
             IN  IF s1 = <<>> THEN FindallStopColors(doc, g, FALSE) ELSE s1

\* parse_svg_colors with line 29 reading `return stops`: no default when no
\* stop was collected
parse_svg_colors_NoDefault(f) ==
    IF ~IsDoc(f)
    THEN [value |-> DefaultColors, printed |-> <<"warning_parse">>,
          raised |-> "none"]
    ELSE [value |-> CollectedStops(f.doc), printed |-> <<>>, raised |-> "none"]

\* parse_svg_colors: ET.parse raises for a missing or malformed file, the
\* handler prints the warning and returns the default
parse_svg_colors(f) ==
    IF ~IsDoc(f)
    THEN [value |-> DefaultColors, printed |-> <<"warning_parse">>,
          raised |-> "none"]
    ELSE LET stops == CollectedStops(f.doc)
         IN  [value   |-> IF stops # <<>> THEN stops ELSE DefaultColors,
              printed |-> <<>>, raised |-> "none"]

----------------------------------------------------------------------------
(* hex_to_rgb *)

HexDigits == <<"0", "1", "2", "3", "4", "5", "6", "7", "8", "9",
               "a", "b", "c", "d", "e", "f">>
HexUpper  == <<"0", "1", "2", "3", "4", "5", "6", "7", "8", "9",
               "A", "B", "C", "D", "E", "F">>

IsHexDigit(c) == \E i \in 1..16 : HexDigits[i] = c \/ HexUpper[i] = c
HexVal(c) == (CHOOSE i \in 1..16 : HexDigits[i] = c \/ HexUpper[i] = c) - 1

RECURSIVE lstrip(_, _)
\* s.lstrip(c)
lstrip(s, c) == IF s # <<>> /\ Head(s) = c THEN lstrip(Tail(s), c) ELSE s

\* s[i:i+2] with i counted from 0
Slice2(s, i) ==
    LET hi == IF i + 2 <= Len(s) THEN i + 2 ELSE Len(s)
    IN  IF i >= Len(s) THEN <<>> ELSE SubSeq(s, i + 1, hi)

\* int(s, 16) for a string of at most two characters, each a hex digit, a
\* sign, "#" or a letter that is no hex digit (the characters of the strings
\* above): ok is FALSE when Python raises ValueError
Int16(s) ==
    IF Len(s) = 1 /\ IsHexDigit(s[1]) THEN [ok |-> TRUE, v |-> HexVal(s[1])]
    ELSE IF Len(s) = 2 /\ IsHexDigit(s[1]) /\ IsHexDigit(s[2])
         THEN [ok |-> TRUE, v |-> 16 * HexVal(s[1]) + HexVal(s[2])]
    ELSE IF Len(s) = 2 /\ s[1] = "-" /\ IsHexDigit(s[2])
         THEN [ok |-> TRUE, v |-> 0 - HexVal(s[2])]
    ELSE IF Len(s) = 2 /\ s[1] = "+" /\ IsHexDigit(s[2])
         THEN [ok |-> TRUE, v |-> HexVal(s[2])]
    ELSE [ok |-> FALSE, v |-> 0]

\* hex_to_rgb without the lstrip('#') of line 36
hex_to_rgb_NoStrip(h) ==
    IF h = None THEN [exc |-> "AttributeError", rgb |-> <<>>]
    ELSE LET r == Int16(Slice2(h, 0))
             g == Int16(Slice2(h, 2))
             b == Int16(Slice2(h, 4))
         IN  IF ~(r.ok /\ g.ok /\ b.ok)
             THEN [exc |-> "ValueError", rgb |-> <<>>]
             ELSE [exc |-> "none", rgb |-> <<r.v, g.v, b.v>>]

\* hex_to_rgb: [exc, rgb]; None has no lstrip (AttributeError)
hex_to_rgb(h) ==
    IF h = None THEN [exc |-> "AttributeError", rgb |-> <<>>]
    ELSE LET t == lstrip(h, "#")
             r == Int16(Slice2(t, 0))
             g == Int16(Slice2(t, 2))
             b == Int16(Slice2(t, 4))
         IN  IF ~(r.ok /\ g.ok /\ b.ok)
             THEN [exc |-> "ValueError", rgb |-> <<>>]
             ELSE [exc |-> "none", rgb |-> <<r.v, g.v, b.v>>]

\* lines 45-46 of create_icon: both conversions, or the first exception
ConvertColors(c) ==
    IF Len(c) < 1 THEN [exc |-> "IndexError", c1 |-> <<>>, c2 |-> <<>>]
    ELSE LET a == hex_to_rgb(c[1])
         IN  IF a.exc # "none" THEN [exc |-> a.exc, c1 |-> <<>>, c2 |-> <<>>]
             ELSE IF Len(c) < 2
                  THEN [exc |-> "IndexError", c1 |-> a.rgb, c2 |-> <<>>]
             ELSE LET b == hex_to_rgb(c[2])
                  IN  IF b.exc # "none"
                      THEN [exc |-> b.exc, c1 |-> a.rgb, c2 |-> <<>>]
                      ELSE [exc |-> "none", c1 |-> a.rgb, c2 |-> b.rgb]

\* line 97 of main: the f-string reads colors[0] and colors[1]
PrintColorsExc(c) == IF Len(c) < 2 THEN "IndexError" ELSE "none"

----------------------------------------------------------------------------
(* SpecParse: parse_svg_colors called on a file, then the uses main and     *)
(* create_icon make of the returned list.                                   *)

Idle ==
    /\ color1 = <<>> /\ color2 = <<>> /\ exc = "none" /\ out = <<>>
    /\ files = <<>> /\ dirCreated = FALSE /\ idx = 0
    /\ size = 0 /\ y = 0 /\ canvas = <<>> /\ colors = <<>> /\ fp = "exact"

InitParse ==
    /\ script = "none"
    /\ pil = TRUE
    /\ svg \in Files(MaxElements)
    /\ pc = "p_call"
    /\ Idle

\* colors = parse_svg_colors(svg_path)
ParseCall ==
    /\ pc = "p_call"
    /\ LET r == parse_svg_colors(svg)
       IN  /\ colors' = r.value
           /\ out' = out \o r.printed
           /\ exc' = r.raised
           /\ pc' = IF r.raised = "none" THEN "p_returned" ELSE "p_raised"
    /\ UNCHANGED <<script, pil, svg, color1, color2, files, dirCreated,
                   idx, size, y, canvas, fp>>

\* print(f"Using gradient colors: {colors[0]} to {colors[1]}")
ParsePrint ==
    /\ pc = "p_returned"
    /\ LET e == PrintColorsExc(colors)
       IN  /\ exc' = e
           /\ pc' = IF e = "none" THEN "p_printed" ELSE "p_raised"
           /\ out' = IF e = "none" THEN Append(out, "using_colors") ELSE out
    /\ UNCHANGED <<script, pil, svg, colors, color1, color2, files, dirCreated,
                   idx, size, y, canvas, fp>>

\* color1 = hex_to_rgb(colors[0]); color2 = hex_to_rgb(colors[1])
ParseConvert ==
    /\ pc = "p_printed"
    /\ LET r == ConvertColors(colors)
       IN  /\ exc' = r.exc
           /\ color1' = r.c1
           /\ color2' = r.c2
           /\ pc' = IF r.exc = "none" THEN "p_done" ELSE "p_raised"
    /\ UNCHANGED <<script, pil, svg, colors, out, files, dirCreated,
                   idx, size, y, canvas, fp>>

NextParse == ParseCall \/ ParsePrint \/ ParseConvert

SpecParse == InitParse /\ [][NextParse]_vars

----------------------------------------------------------------------------
(* SpecRender: one call of create_icon (script = "proper") or of            *)
(* svg_to_base64_png (script = "icons"), drawn on the canvas.               *)
(*                                                                          *)
(* ImageDraw.Draw(img) on an 'RGBA' image stores the fill in the pixels it  *)
(* covers, alpha included; it does not blend with what is there.  Which     *)
(* pixels PIL's rasterizer covers is approximated: an ellipse by the disc   *)
(* inscribed in its bounding box, a wide line by the pixels within half the *)
(* width of the segment, a zero-length line by its point.                   *)

\* the stop colours a canvas is drawn with
RenderColors == {Str112233, Str445566, Str6366f1, Str8b5cf6}

Max(a, b) == IF a >= b THEN a ELSE b

\* int(p / q) for q > 0: truncation towards zero
TruncDiv(p, q) == IF p >= 0 THEN p \div q ELSE 0 - ((0 - p) \div q)

\* the interpolation with ratio = (row + 1) / s
Lerp_NextRow(c0, c1, row, s) == TruncDiv(c0 * s + (c1 - c0) * (row + 1), s)

\* int(c0 + (c1 - c0) * (row / s)) in exact arithmetic
Lerp(c0, c1, row, s) == TruncDiv(c0 * s + (c1 - c0) * row, s)

\* the same in IEEE doubles: row / s and the product are rounded, and when
\* the exact value is an integer the double may fall just below it (size 11,
\* 246 -> 92, row 9 gives 119 for 120), so that int() yields one less.  Which
\* of the two happens is fixed by `mode` for a whole call: "exact" never
\* rounds below, "low" does wherever the exact value is an integer; every
\* value a single row can take is reached under one of the two.
RowChannel(c0, c1, row, s, mode) ==
    IF mode = "low" /\ row > 0 /\ c1 # c0 /\ ((c1 - c0) * row) % s = 0
    THEN Lerp(c0, c1, row, s) - 1
    ELSE Lerp(c0, c1, row, s)

\* the fill (r, g, b, 255) of line 54
RowFill(c1, c2, row, s, mode) ==
    << RowChannel(c1[1], c2[1], row, s, mode),
       RowChannel(c1[2], c2[2], row, s, mode),
       RowChannel(c1[3], c2[3], row, s, mode),
       255 >>

Pixels(s) == (0..(s - 1)) \X (0..(s - 1))

\* Image.new('RGBA', (size, size), (0, 0, 0, 0))
NewImage(s) == [p \in Pixels(s) |-> <<0, 0, 0, 0>>]

\* draw.line([(0, row), (s, row)], fill): the whole row
PaintedRow(img, s, row, fill) ==
    [p \in DOMAIN img |-> IF p[2] = row THEN fill ELSE img[p]]

\* draw.ellipse([(cx - r, cy - r), (cx + r, cy + r)], fill)
Ellipse(img, cx, cy, r, fill) ==
    [p \in DOMAIN img |->
        IF (p[1] - cx) * (p[1] - cx) + (p[2] - cy) * (p[2] - cy) <= r * r
        THEN fill ELSE img[p]]

\* draw.line([x0, y0, x1, y1], fill, width=w)
WideLine(img, x0, y0, x1, y1, w, fill) ==
    LET dx == x1 - x0
        dy == y1 - y0
        len2 == dx * dx + dy * dy
        On(p) ==
            IF len2 = 0 THEN p = <<x0, y0>>
            ELSE LET dot   == (p[1] - x0) * dx + (p[2] - y0) * dy
                     cross == (p[1] - x0) * dy - (p[2] - y0) * dx
                 IN  /\ 0 <= dot /\ dot <= len2
                     /\ 4 * cross * cross <= w * w * len2
    IN  [p \in DOMAIN img |-> IF On(p) THEN fill ELSE img[p]]

\* nodes of create_icon (lines 57-66): <<left, top, right>>
Nodes(s) ==
    LET c == s \div 2
    IN  << <<c - (12 * s) \div 100, c>>,
           <<c, c - (15 * s) \div 100>>,
           <<c + (12 * s) \div 100, c>> >>

\* node_radius = max(4, size // 15)
NodeRadius(s) == Max(4, s \div 15)

\* line_width = max(2, size // 60)
LineWidth(s) == Max(2, s \div 60)

NodeFill == <<255, 255, 255, 240>>
LineFill == <<255, 255, 255, 180>>
CircleFill == <<255, 255, 255, 230>>

\* the k-th ellipse of create_icon, in the order left, top, right
WithNode(img, s, k) ==
    Ellipse(img, Nodes(s)[k][1], Nodes(s)[k][2], NodeRadius(s), NodeFill)

\* the k-th line of create_icon: top to left, then top to right
WithLine(img, s, k) ==
    LET n == Nodes(s)
        to == IF k = 1 THEN n[1] ELSE n[3]
    IN  WideLine(img, n[2][1], n[2][2], to[1], to[2], LineWidth(s), LineFill)

\* the k-th ellipse of svg_to_base64_png (lines 33-55): left, right, top
WithCircle(img, s, k) ==
    LET c   == s \div 2
        r   == (8 * s) \div 100
        off == (15 * s) \div 100
    IN  IF k = 1 THEN Ellipse(img, c - off, c, r, CircleFill)
        ELSE IF k = 2 THEN Ellipse(img, c + off, c, r, CircleFill)
        ELSE Ellipse(img, c, c - off, r, CircleFill)

InitRender ==
    /\ script \in {"proper", "icons"}
    /\ pil = TRUE
    /\ svg = [state |-> "ok", doc |-> <<>>]
    /\ size \in 1..MaxSize
    /\ colors \in IF script = "proper" THEN RenderColors \X RenderColors
                  ELSE {DefaultColors}
    /\ pc = "r_call"
    /\ color1 = <<>> /\ color2 = <<>> /\ exc = "none" /\ out = <<>>
    /\ files = <<>> /\ dirCreated = FALSE /\ idx = 0
    /\ y = 0 /\ canvas = <<>>
    /\ fp \in {"exact", "low"}

\* lines 41-46 of create_icon; lines 17-18 of svg_to_base64_png, whose two
\* colours are the constants of lines 27-29
RenderNew ==
    /\ pc = "r_call"
    /\ LET r == ConvertColors(colors)
       IN  /\ exc' = r.exc
           /\ color1' = r.c1
           /\ color2' = r.c2
           /\ pc' = IF r.exc = "none" THEN "r_rows" ELSE "r_raised"
    /\ canvas' = NewImage(size)
    /\ y' = 0
    /\ UNCHANGED <<script, pil, svg, colors, out, files, dirCreated, idx, size, fp>>

\* one pass of the loop `for y in range(size)`
PaintRow ==
    /\ pc = "r_rows"
    /\ y < size
    /\ canvas' = PaintedRow(canvas, size, y, RowFill(color1, color2, y, size, fp))
    /\ y' = y + 1
    /\ pc' = IF y + 1 = size THEN "r_nodes" ELSE "r_rows"
    /\ idx' = 0
    /\ UNCHANGED <<script, pil, svg, colors, color1, color2, exc, out,
                   files, dirCreated, size, fp>>

\* one node circle: a pass of `for (x, y) in nodes` in create_icon, one of
\* the three draw.ellipse calls in svg_to_base64_png (which draws no line)
DrawNode ==
    /\ pc = "r_nodes"
    /\ canvas' = IF script = "proper" THEN WithNode(canvas, size, idx + 1)
                 ELSE WithCircle(canvas, size, idx + 1)
    /\ idx' = IF idx + 1 = 3 THEN 0 ELSE idx + 1
    /\ pc' = IF idx + 1 < 3 THEN "r_nodes"
             ELSE IF script = "proper" THEN "r_lines" ELSE "r_drawn"
    /\ UNCHANGED <<script, pil, svg, colors, color1, color2, exc, out, files,
                   dirCreated, size, y, fp>>

\* one of the two connecting lines of create_icon
DrawLine ==
    /\ pc = "r_lines"
    /\ canvas' = WithLine(canvas, size, idx + 1)
    /\ idx' = IF idx + 1 = 2 THEN 0 ELSE idx + 1
    /\ pc' = IF idx + 1 < 2 THEN "r_lines" ELSE "r_drawn"
    /\ UNCHANGED <<script, pil, svg, colors, color1, color2, exc, out, files,
                   dirCreated, size, y, fp>>

\* img.save(output_path, 'PNG') / img.save(buffer, format='PNG')
RenderSave ==
    /\ pc = "r_drawn"
    /\ files' = Append(files, [name |-> IF script = "proper" THEN "output_path"
                                        ELSE "buffer",
                               w |-> size, h |-> size])
    /\ out' = IF script = "proper" THEN Append(out, "created") ELSE out
    /\ pc' = "r_saved"
    /\ UNCHANGED <<script, pil, svg, colors, color1, color2, exc, dirCreated,
                   idx, size, y, canvas, fp>>

NextRender == RenderNew \/ PaintRow \/ DrawNode \/ DrawLine \/ RenderSave

SpecRender == InitRender /\ [][NextRender]_vars

----------------------------------------------------------------------------
(* Spec: a run of generate_proper_icons.py or of generate_icons.py.         *)

\* the dict display of lines 103-123, entry by entry as written
SizesLiteral ==
    << <<72,  "icon-72x72.png">>,
       <<96,  "icon-96x96.png">>,
       <<128, "icon-128x128.png">>,
       <<144, "icon-144x144.png">>,
       <<152, "icon-152x152.png">>,
       <<192, "icon-192x192.png">>,
       <<384, "icon-384x384.png">>,
       <<512, "icon-512x512.png">>,
       <<76,  "apple-touch-icon-76.png">>,
       <<120, "apple-touch-icon-120.png">>,
       <<152, "apple-touch-icon-152.png">>,
       <<167, "apple-touch-icon-167.png">>,
       <<180, "apple-touch-icon.png">>,
       <<640, "splash-screen.png">> >>

\* the dict a display builds: a key keeps the position of its first entry
\* and takes the value of its last one; the result is items() in order
DictItems(lit) ==
    LET firsts == SelectSeq([i \in 1..Len(lit) |-> i],
                            LAMBDA i : \A j \in 1..(i - 1) : lit[j][1] # lit[i][1])
        lastOf(k) == CHOOSE i \in 1..Len(lit) :
                        /\ lit[i][1] = k
                        /\ \A j \in (i + 1)..Len(lit) : lit[j][1] # k
    IN  [n \in 1..Len(firsts) |->
            <<lit[firsts[n]][1], lit[lastOf(lit[firsts[n]][1])][2]>>]

\* sizes.items() of main
sizes == DictItems(SizesLiteral)

\* ios_sizes of generate_icons.py (line 179)
ios_sizes == <<72, 76, 96, 120, 128, 144, 152, 167, 180, 192, 384, 512>>

Init ==
    /\ script \in {"proper", "icons"}
    /\ pil \in BOOLEAN
    /\ svg \in IF script = "proper" THEN Files(MaxRunElements)
               ELSE [state : {"missing", "malformed", "ok"}, doc : {<<>>}]
    /\ pc = "start"
    /\ Idle

\* generate_proper_icons.py, lines 6-8 and 135-137: the imports run before
\* the try statement is reached, so a failing import is not handled
ImportModules ==
    /\ pc = "start"
    /\ script = "proper"
    /\ IF pil
       THEN /\ pc' = "main"
            /\ UNCHANGED <<exc, out>>
       ELSE /\ pc' = "crashed"
            /\ exc' = "ImportError"
            /\ out' = Append(out, "traceback")
    /\ UNCHANGED <<script, pil, svg, colors, color1, color2, files, dirCreated,
                   idx, size, y, canvas, fp>>

\* main without the `return` of line 93
MainExists_NoReturn ==
    /\ pc = "main"
    /\ IF svg.state = "missing"
       THEN /\ out' = Append(out, "error_not_found")
            /\ pc' = "parse"
       ELSE /\ pc' = "parse"
            /\ UNCHANGED out
    /\ UNCHANGED <<script, pil, svg, colors, color1, color2, exc, files,
                   dirCreated, idx, size, y, canvas, fp>>

\* main, lines 89-93
MainExists ==
    /\ pc = "main"
    /\ IF svg.state = "missing"
       THEN /\ out' = Append(out, "error_not_found")
            /\ pc' = "done"
       ELSE /\ pc' = "parse"
            /\ UNCHANGED out
    /\ UNCHANGED <<script, pil, svg, colors, color1, color2, exc, files,
                   dirCreated, idx, size, y, canvas, fp>>

\* main, line 96
MainParse ==
    /\ pc = "parse"
    /\ LET r == parse_svg_colors(svg)
       IN  /\ colors' = r.value
           /\ out' = out \o r.printed
           /\ exc' = r.raised
           /\ pc' = IF r.raised = "none" THEN "print" ELSE "handler"
    /\ UNCHANGED <<script, pil, svg, color1, color2, files, dirCreated, idx,
                   size, y, canvas, fp>>

\* main, line 97
MainPrint ==
    /\ pc = "print"
    /\ LET e == PrintColorsExc(colors)
       IN  /\ exc' = e
           /\ pc' = IF e = "none" THEN "makedirs" ELSE "handler"
           /\ out' = IF e = "none" THEN Append(out, "using_colors") ELSE out
    /\ UNCHANGED <<script, pil, svg, colors, color1, color2, files, dirCreated,
                   idx, size, y, canvas, fp>>

\* main, lines 100-125
MainMakedirs ==
    /\ pc = "makedirs"
    /\ dirCreated' = TRUE
    /\ out' = Append(out, "generating")
    /\ idx' = 1
    /\ pc' = "loop"
    /\ UNCHANGED <<script, pil, svg, colors, color1, color2, exc, files,
                   size, y, canvas, fp>>

\* create_icon converting the colours only after the image is saved
CreateIcon_SaveBeforeConvert ==
    /\ pc = "loop"
    /\ idx <= Len(sizes)
    /\ LET r == ConvertColors(colors)
       IN  /\ exc' = r.exc
           /\ color1' = r.c1
           /\ color2' = r.c2
           /\ size' = sizes[idx][1]
           /\ files' = Append(files, [name |-> sizes[idx][2],
                                      w |-> sizes[idx][1],
                                      h |-> sizes[idx][1]])
           /\ IF r.exc = "none"
              THEN /\ out' = Append(out, "created")
                   /\ idx' = idx + 1
                   /\ pc' = "loop"
              ELSE /\ pc' = "handler"
                   /\ UNCHANGED <<out, idx>>
    /\ UNCHANGED <<script, pil, svg, colors, dirCreated, y, canvas, fp>>

\* one pass of the loop of lines 128-130: create_icon(size, colors, path)
\* converts the colours, draws a size x size image and saves it (a channel
\* outside 0..255 is clipped by the drawing, it raises nothing)
CreateIcon ==
    /\ pc = "loop"
    /\ idx <= Len(sizes)
    /\ LET r == ConvertColors(colors)
       IN  /\ exc' = r.exc
           /\ color1' = r.c1
           /\ color2' = r.c2
           /\ size' = sizes[idx][1]
           /\ IF r.exc = "none"
              THEN /\ files' = Append(files, [name |-> sizes[idx][2],
                                              w |-> sizes[idx][1],
                                              h |-> sizes[idx][1]])
                   /\ out' = Append(out, "created")
                   /\ idx' = idx + 1
                   /\ pc' = "loop"
              ELSE /\ pc' = "handler"
                   /\ UNCHANGED <<files, out, idx>>
    /\ UNCHANGED <<script, pil, svg, colors, dirCreated, y, canvas, fp>>

\* main, lines 132-133, once the loop has ended
MainFinish ==
    /\ pc = "loop"
    /\ idx > Len(sizes)
    /\ out' = out \o <<"success", "hint">>
    /\ pc' = "done"
    /\ UNCHANGED <<script, pil, svg, colors, color1, color2, exc, files,
                   dirCreated, idx, size, y, canvas, fp>>

\* the handlers of lines 138-142
Handler ==
    /\ pc = "handler"
    /\ out' = IF exc = "ImportError" THEN out \o <<"error_pil_required", "install_hint">>
              ELSE Append(out, "error_exception")
    /\ pc' = "done"
    /\ UNCHANGED <<script, pil, svg, colors, color1, color2, exc, files,
                   dirCreated, idx, size, y, canvas, fp>>

\* generate_icons.py, lines 177-181 and 70-88: open() of a missing file
\* raises FileNotFoundError, which nothing handles
IconsOpen ==
    /\ pc = "start"
    /\ script = "icons"
    /\ IF svg.state = "missing"
       THEN /\ pc' = "crashed"
            /\ exc' = "FileNotFoundError"
            /\ out' = Append(out, "traceback")
            /\ UNCHANGED idx
       ELSE /\ pc' = "i_loop"
            /\ out' = Append(out, "generating")
            /\ idx' = 1
            /\ UNCHANGED exc
    /\ UNCHANGED <<script, pil, svg, colors, color1, color2, files, dirCreated,
                   size, y, canvas, fp>>

\* one pass of the loop of lines 90-114: svg_to_base64_png returns the
\* encoded image, or None after reporting that PIL is missing
IconsSize ==
    /\ pc = "i_loop"
    /\ idx <= Len(ios_sizes)
    /\ size' = ios_sizes[idx]
    /\ out' = IF pil THEN Append(out, "generated")
              ELSE out \o <<"pil_not_available", "could_not_generate">>
    /\ idx' = idx + 1
    /\ UNCHANGED <<script, pil, svg, pc, colors, color1, color2, exc, files,
                   dirCreated, y, canvas, fp>>

\* lines 116-175: the two files are written once the loop has ended; chmod
\* may fail, which is reported and ignored
IconsWrite ==
    /\ pc = "i_loop"
    /\ idx > Len(ios_sizes)
    /\ files' = files \o << [name |-> "ios-icons.html", w |-> 0, h |-> 0],
                            [name |-> "generate-icons.sh", w |-> 0, h |-> 0] >>
    /\ \E chmodOk \in BOOLEAN :
          out' = out \o <<"generated_html",
                          IF chmodOk THEN "generated_script" ELSE "note_chmod",
                          "alternative_method">>
    /\ pc' = "done"
    /\ UNCHANGED <<script, pil, svg, colors, color1, color2, exc, dirCreated,
                   idx, size, y, canvas, fp>>

Next ==
    \/ ImportModules
    \/ MainExists
    \/ MainParse
    \/ MainPrint
    \/ MainMakedirs
    \/ CreateIcon
    \/ MainFinish
    \/ Handler
    \/ IconsOpen
    \/ IconsSize
    \/ IconsWrite

Spec == Init /\ [][Next]_vars

----------------------------------------------------------------------------
(* Claims about parse_svg_colors (specification SpecParse) *)

GradientIndexes(doc) == {i \in 1..Len(doc) : doc[i].kind = "linearGradient"}

\* the first linearGradient of the document in document order, whatever its
\* namespace (0 if there is none)
FirstGradientInDocument(doc) ==
    IF GradientIndexes(doc) = {} THEN 0 ELSE Min(GradientIndexes(doc))

\* the first linearGradient in the SVG namespace or, when the document has
\* none in that namespace, the first un-namespaced one (0 if there is none)
FirstGradientByNamespace(doc) ==
    LET inNs  == {i \in GradientIndexes(doc) : doc[i].ns}
        plain == {i \in GradientIndexes(doc) : ~doc[i].ns}
    IN  IF inNs # {} THEN Min(inNs)
        ELSE IF plain # {} THEN Min(plain) ELSE 0

HasNoStopChild(doc, g) ==
    \A j \in 1..Len(Children(doc, g)) : Children(doc, g)[j].kind # "stop"

Returned == script = "none" /\ pc # "p_call"

DefaultPairReturned ==
    /\ colors = << <<"#", "6", "3", "6", "6", "f", "1">>,
                   <<"#", "8", "b", "5", "c", "f", "6">> >>
    /\ exc = "none"
    /\ pc # "p_raised"
    /\ pc = "p_done" => color1 = <<99, 102, 241>> /\ color2 = <<139, 92, 246>>

\* C1 as stated: a missing, unreadable or unparseable file, a document with
\* no linearGradient, or one whose first linearGradient (in document order)
\* has zero stop children, makes parse_svg_colors return the default pair,
\* and no exception leaves the call.
C1_DefaultOnFirstGradient ==
    (Returned /\ (\/ ~IsDoc(svg)
                  \/ FirstGradientInDocument(svg.doc) = 0
                  \/ HasNoStopChild(svg.doc, FirstGradientInDocument(svg.doc))))
        => DefaultPairReturned

\* C1 amended: the same, with the gradient of the last case being the one the
\* lookup selects: the first linearGradient in the SVG namespace or, if the
\* document has none, the first un-namespaced linearGradient.
C1_DefaultOnSelectedGradient ==
    (Returned /\ (\/ ~IsDoc(svg)
                  \/ FirstGradientByNamespace(svg.doc) = 0
                  \/ HasNoStopChild(svg.doc, FirstGradientByNamespace(svg.doc))))
        => DefaultPairReturned

\* C1's case reached: a readable document whose only linearGradient has no
\* stop child at all has been parsed and converted to the default pair.
C1_Witness ==
    /\ script = "none" /\ pc = "p_done"
    /\ IsDoc(svg)
    /\ Cardinality(GradientIndexes(svg.doc)) = 1
    /\ FirstGradientByNamespace(svg.doc) = Len(svg.doc)
    /\ colors = DefaultColors
    /\ color1 = <<99, 102, 241>>

IsChannel(v) == v \in 0..255
IsColor(c) == Len(c) = 3 /\ \A i \in 1..3 : IsChannel(c[i])

\* C5: for every input the value handed on is a valid Gradient: exactly two
\* colours, each three integers in 0..255, and neither the read of
\* colors[0], colors[1] nor hex_to_rgb fails.
C5_AlwaysValidGradient ==
    Returned =>
        /\ Len(colors) = 2
        /\ pc # "p_raised"
        /\ pc = "p_done" => IsColor(color1) /\ IsColor(color2)

IsHex6(h) ==
    /\ Len(h) = 7 /\ h[1] = "#"
    /\ \A i \in 2..7 : IsHexDigit(h[i])

\* the three 8-bit channels of the six-digit values of the model
Rgb6(h) ==
    IF h = Str112233 THEN <<17, 34, 51>>
    ELSE IF h = Str445566 THEN <<68, 85, 102>>
    ELSE IF h = Str6366f1 THEN <<99, 102, 241>>
    ELSE IF h = Str8b5cf6 THEN <<139, 92, 246>>
    ELSE <<>>

StopChildren(doc, g) == SelectSeq(Children(doc, g), LAMBDA e : e.kind = "stop")

\* C6 as stated: when the first linearGradient of the document declares two
\* stops h1, h2 (six-digit hex), in either namespace, the gradient extracted
\* is (rgb(h1), rgb(h2)) in that order.
C6_FirstGradientStops ==
    (/\ script = "none" /\ pc \in {"p_done", "p_raised"}
     /\ IsDoc(svg)
     /\ FirstGradientInDocument(svg.doc) # 0
     /\ LET st == StopChildren(svg.doc, FirstGradientInDocument(svg.doc))
        IN  Len(st) = 2 /\ IsHex6(st[1].color) /\ IsHex6(st[2].color))
    => LET st == StopChildren(svg.doc, FirstGradientInDocument(svg.doc))
       IN  /\ pc = "p_done"
           /\ color1 = Rgb6(st[1].color)
           /\ color2 = Rgb6(st[2].color)

\* the stop children the lookup collects from gradient g: those in the SVG
\* namespace or, when g has none, the un-namespaced ones
StopsByNamespace(doc, g) ==
    LET inNs == SelectSeq(Children(doc, g), IsNsStop)
    IN  IF inNs # <<>> THEN inNs ELSE SelectSeq(Children(doc, g), IsPlainStop)

\* C6 amended: when the linearGradient the lookup selects (first in the SVG
\* namespace, else first un-namespaced) has as its stop children in the SVG
\* namespace - or, having none there, as its un-namespaced stop children -
\* exactly two stops h1, h2 (six-digit hex), the gradient extracted is
\* (rgb(h1), rgb(h2)) in that order.
C6_SelectedGradientStops ==
    (/\ script = "none" /\ pc \in {"p_done", "p_raised"}
     /\ IsDoc(svg)
     /\ FirstGradientByNamespace(svg.doc) # 0
     /\ LET st == StopsByNamespace(svg.doc, FirstGradientByNamespace(svg.doc))
        IN  Len(st) = 2 /\ IsHex6(st[1].color) /\ IsHex6(st[2].color))
    => LET st == StopsByNamespace(svg.doc, FirstGradientByNamespace(svg.doc))
       IN  /\ pc = "p_done"
           /\ color1 = Rgb6(st[1].color)
           /\ color2 = Rgb6(st[2].color)

\* C6's case reached: an un-namespaced gradient with the un-namespaced stops
\* #112233, #445566 has been extracted and converted, in order.
C6_Witness ==
    /\ script = "none" /\ pc = "p_done"
    /\ svg.state = "ok"
    /\ svg.doc = << [kind |-> "linearGradient", ns |-> FALSE, color |-> None],
                    [kind |-> "stop", ns |-> FALSE, color |-> Str112233],
                    [kind |-> "stop", ns |-> FALSE, color |-> Str445566] >>
    /\ color1 = <<17, 34, 51>>
    /\ color2 = <<68, 85, 102>>

----------------------------------------------------------------------------
(* Claims about the drawing (specification SpecRender) *)

Abs(v) == IF v < 0 THEN 0 - v ELSE v

\* the loop over the rows has ended and nothing has been drawn over them
RowsPainted == pc = "r_nodes" /\ idx = 0

RowZeroIsStart ==
    \A x \in 0..(size - 1) :
        canvas[<<x, 0>>] = Rgb6(colors[1]) \o <<255>>

\* C2 as stated: for every size and every gradient of two 8-bit colours, row
\* 0 is filled with g[0] exactly and row size-1 with a colour within 1 of
\* g[1] in each channel.
C2_LastRowWithinOne ==
    RowsPainted =>
        /\ RowZeroIsStart
        /\ \A x \in 0..(size - 1) : \A k \in 1..3 :
              Abs(canvas[<<x, size - 1>>][k] - Rgb6(colors[2])[k]) <= 1

\* C2 amended: row 0 is filled with g[0] exactly, and row size-1 with a
\* colour that differs from g[1], in each channel, by at most
\* |g[1] - g[0]| / size + 1.
C2_LastRowWithinStep ==
    RowsPainted =>
        /\ RowZeroIsStart
        /\ \A x \in 0..(size - 1) : \A k \in 1..3 :
              size * Abs(canvas[<<x, size - 1>>][k] - Rgb6(colors[2])[k])
                 <= Abs(Rgb6(colors[2])[k] - Rgb6(colors[1])[k]) + size

\* C2's case reached: the default gradient at size 12 has its rows painted;
\* row 0 is (99, 102, 241) and row 11 is (135, 92, 245), 4 away from 139.
C2_Witness ==
    /\ RowsPainted
    /\ script = "proper"
    /\ size = 12
    /\ colors = DefaultColors
    /\ canvas[<<0, 0>>] = <<99, 102, 241, 255>>
    /\ canvas[<<11, 11>>] = <<135, 92, 245, 255>>

\* C7: once the rows, the node circles and the lines have been drawn, every
\* pixel of the canvas has alpha 255.
C7_FullyOpaque ==
    pc \in {"r_drawn", "r_saved"} =>
        \A p \in DOMAIN canvas : canvas[p][4] = 255

----------------------------------------------------------------------------
(* Claims about a whole run (specification Spec) *)

Ended == pc \in {"done", "crashed"}

Printed(m) == \E i \in 1..Len(out) : out[i] = m

\* how many times a file of that name has been written
Writes(name) == Cardinality({i \in 1..Len(files) : files[i].name = name})

\* a run of generate_proper_icons.py that went through main() to its end
MainCompleted == script = "proper" /\ pc = "done" /\ Printed("success")

\* C3: when main() finishes on an existing, valid document, each of the 14
\* filenames of the table has been written exactly once, at the size the
\* table gives for it.
C3_EveryTableEntryWritten ==
    MainCompleted =>
        \A i \in 1..Len(SizesLiteral) :
            /\ Writes(SizesLiteral[i][2]) = 1
            /\ \E k \in 1..Len(files) :
                  /\ files[k].name = SizesLiteral[i][2]
                  /\ files[k].w = SizesLiteral[i][1]
                  /\ files[k].h = SizesLiteral[i][1]

\* C4: the image written to splash-screen.png is 640 wide and 1136 high.
C4_SplashIs640x1136 ==
    MainCompleted =>
        \E k \in 1..Len(files) :
            /\ files[k].name = "splash-screen.png"
            /\ files[k].w = 640
            /\ files[k].h = 1136

\* the reports of the missing imaging library
DependencyReports ==
    {i \in 1..Len(out) : out[i] \in {"error_pil_required", "pil_not_available"}}

\* C8: without PIL, each script reports the missing dependency exactly once,
\* ends through its own handler (no unhandled exception) and writes no file.
C8_MissingDependencyHandled ==
    (~pil /\ Ended) =>
        /\ Cardinality(DependencyReports) = 1
        /\ pc = "done"
        /\ ~Printed("traceback")
        /\ files = <<>>

\* C9: when public/images/favicon.svg does not exist, the output directory is
\* never created and no file is ever written, and the run ends having
\* printed a diagnostic (the message of main(), or the traceback of the
\* exception that ended the script).
C9_MissingInputWritesNothing ==
    (script \in {"proper", "icons"} /\ svg.state = "missing") =>
        /\ files = <<>>
        /\ ~dirCreated
        /\ pc \notin {"parse", "print", "makedirs", "loop", "handler", "i_loop"}
        /\ Ended => (Printed("error_not_found") \/ Printed("traceback"))

\* C9's case reached: main() found the file missing, printed its message and
\* returned.
C9_Witness ==
    /\ script = "proper" /\ pil
    /\ svg.state = "missing"
    /\ pc = "done"
    /\ out = <<"error_not_found">>
    /\ files = <<>> /\ ~dirCreated

\* C10: in generate_proper_icons.py a failure caused by the extracted colours
\* comes before the first PNG is saved: while an exception is in flight or
\* has ended the run no file has been written, and a run that has ended has
\* written either nothing or every entry main() iterates.
C10_AllOrNothing ==
    script = "proper" =>
        /\ exc # "none" => files = <<>>
        /\ Ended => \/ files = <<>>
                    \/ /\ Len(files) = Len(sizes)
                       /\ \A i \in 1..Len(sizes) : files[i].name = sizes[i][2]

\* C10's case reached: two stops were extracted, the second with a value that
\* is no hex colour; create_icon raised in its first call, after the output
\* directory was created, and the run ended with no file written.
C10_Witness ==
    /\ script = "proper" /\ pc = "done"
    /\ Len(colors) = 2
    /\ exc = "ValueError"
    /\ dirCreated
    /\ idx = 1
    /\ files = <<>>

====
